---- MODULE Spec2Model ----
(***************************************************************************)
(* Synthetic market-data generation and aggregation of the dashboard:      *)
(*   streamlit_app/news_data.py        company_price_series,               *)
(*                                     _generate_index_series,             *)
(*                                     sentiment_summary                   *)
(*   streamlit_app/stock_prediction.py StockPredictionModal                *)
(*                                                                         *)
(* Number representation.  Python floats are modelled in fixed point:      *)
(*   money and index values   in mills (1/1000 of a unit), so that         *)
(*                            round(x, 2) is a real rounding step;         *)
(*   progress, shock_center   in permille (1/1000);                        *)
(*   change_percent           in 1/1000 of a percent.                      *)
(* Products are divided back with \div (quotients rounded down).           *)
(* The results of random.uniform / random.randint / random.choice are      *)
(* nondeterministic choices from small grids that contain both ends of     *)
(* the range the code draws from.  math.exp and math.sin are library       *)
(* calls: their results are drawn from their ranges on the arguments the   *)
(* code passes (exp(-6p) in (0,1], sin(1.5*pi*p) in [-1,1], p in [0,1]).   *)
(***************************************************************************)
EXTENDS Integers, Sequences, FiniteSets, TLC

VARIABLES
    \* ---- company_price_series (news_data.py:247-298) ----
    pc,                 \* "idle" | "loop" | "returned" | "ZeroDivisionError"
    interval_minutes,   \* argument
    bias,               \* argument (NoBias models None)
    points,             \* local
    i,                  \* loop variable
    prev_close,         \* local, mills
    price,              \* local, mills
    base_trend,         \* local, mills
    morning_burst,      \* local, mills
    shock_center,       \* local, permille
    shock_magnitude,    \* local, mills
    series,             \* local list of points, the return value
    \* ---- _generate_index_series (news_data.py:99-107) ----
    idx_pc,             \* "idle" | "loop" | "returned" | "IndexError"
    latest,             \* argument, mills
    idx_points,         \* argument `points`
    idx_left,           \* iterations of `for step in reversed(range(points))` left
    current,            \* local, mills
    idx_series,         \* local list `series`, the return value
    \* ---- StockPredictionModal (stock_prediction.py:47-109) ----
    loading,            \* self.loading
    stock_data,         \* self.stock_data (NoData models None)
    modal_data,         \* what the last get_modal_data returned (NoData: no call yet)
    predictions,        \* history: the predictions made on the current record
    series_calls,       \* history: company_price_series calls made for the
                        \* current record (since construction before a fetch)
    \* ---- sentiment_summary (news_data.py:141-148) ----
    articles,           \* the batch passed as argument
    summary,            \* the returned dict (NoData: not called on this batch)
    last_summary,       \* history: what the call before returned on this batch
    \* ---- SentimentAnalyzer (sentiment_analyzer.py:47-77) ----
    sa_articles,        \* self.articles
    sa_total,           \* self.total
    sa_percentage,      \* last get_percentage call: argument and result
    sa_analysis,        \* what get_sentiment_analysis returned (NoData: no call)
    \* ---- fake_indices (news_data.py:110-130), render_indices_tab ----
    fi_pc,              \* "idle" | "loop" | "returned"
    fi_base,            \* local `base` of the last iteration, mills
    fi_change,          \* local `change` of the last iteration, mills
    fi_current_value,   \* local `current_value` of the last iteration, mills
    fi_change_pct,      \* local `change_pct` of the last iteration, 1/1000 %
    snapshots,          \* local list, the return value
    breadth,            \* what render_indices_tab computed (app.py:669-671)
    \* ---- fake_signals (news_data.py:73-96) ----
    fs_pc,              \* "idle" | "loop" | "returned"
    cards,              \* local list
    signals,            \* the returned dict (NoData before the return)
    \* ---- StockChart (stock_chart.py:32-86) ----
    chart,              \* the fields of the StockChart (NoData: none built)
    chart_dict,         \* what to_dict returned (NoData: no call yet)
    \* ---- st.session_state (app.py:247-252, 828-886, auth_ui.py:13-30) ----
    user,               \* session_state.user (NoUser models None)
    history_set,        \* "chat_history" in st.session_state
    chat_history,       \* session_state.chat_history (empty while not set)
    senders,            \* history: session_state.user at each append
    client,             \* llm_utils._client: "unloaded" before the import,
                        \* then "none" (no API key) or "client"
    run                 \* how the last script run ended: "ok" or the exception

priceVars == <<pc, interval_minutes, bias, points, i, prev_close, price,
               base_trend, morning_burst, shock_center, shock_magnitude, series>>
indexVars == <<idx_pc, latest, idx_points, idx_left, current, idx_series>>
modalVars == <<loading, stock_data, modal_data, predictions, series_calls>>
tallyVars == <<articles, summary, last_summary>>
analyzerVars == <<sa_articles, sa_total, sa_percentage, sa_analysis>>
indicesVars == <<fi_pc, fi_base, fi_change, fi_current_value, fi_change_pct,
                 snapshots, breadth>>
signalsVars == <<fs_pc, cards, signals>>
chartVars == <<chart, chart_dict>>
sessionVars == <<user, history_set, chat_history, senders, client, run>>
vars == <<priceVars, indexVars, modalVars, tallyVars, analyzerVars,
          indicesVars, signalsVars, chartVars, sessionVars>>

----------------------------------------------------------------------------
(* Bounds of the model                                                     *)

MaxPoints == 13        \* longest intraday series generated
MaxIndexPoints == 3    \* largest point count passed to _generate_index_series
MaxCalls == 3          \* get_modal_data calls followed between two fetches
MaxArticles == 7       \* longest article batch
NumTickers == 6        \* tickers of COMPANIES that occur in a batch
MaxAnalyzed == 12      \* longest batch given to a SentimentAnalyzer
NumIndices == 4        \* entries of REGION_MAP that fake_indices walks through
MaxMessages == 6       \* longest chat_history followed

----------------------------------------------------------------------------
(* Arithmetic helpers                                                      *)

Max(a, b) == IF a >= b THEN a ELSE b

Abs(a) == IF a >= 0 THEN a ELSE -a

\* round(x, 2) on a value in mills: nearest multiple of 10 mills, ties to even
Round2(x) ==
    LET q == x \div 10
        r == x % 10
    IN  IF r < 5 THEN q * 10
        ELSE IF r > 5 THEN (q + 1) * 10
        ELSE IF q % 2 = 0 THEN q * 10 ELSE (q + 1) * 10

\* insertion of e into the sorted sequence s after every element whose key
\* is not larger (list.sort is stable)
RECURSIVE InsertByStep(_, _)
InsertByStep(s, e) ==
    IF s = <<>> THEN <<e>>
    ELSE IF s[Len(s)].step <= e.step THEN Append(s, e)
    ELSE Append(InsertByStep(SubSeq(s, 1, Len(s) - 1), e), s[Len(s)])

\* series.sort(key=lambda x: x["step"])
RECURSIVE SortByStep(_)
SortByStep(s) ==
    IF s = <<>> THEN <<>>
    ELSE InsertByStep(SortByStep(SubSeq(s, 1, Len(s) - 1)), s[Len(s)])

----------------------------------------------------------------------------
(* company_price_series                                                    *)

SessionMinutes == 390          \* session_minutes = 6.5 * 60
SessionStart == 810            \* 13:30, in minutes after midnight
PriceFloor == 1000             \* max(1, ...), mills

NoBias == "<None>"

\* bias arguments tried
Biases == {NoBias, "", "buy", "Bullish", "INCREASE", "SELL", "bearish",
           "Decrease", "hold"}

\* str.lower() on the arguments tried
Lower(s) == CASE s = "SELL" -> "sell"
              [] s = "BUY" -> "buy"
              [] s = "Bullish" -> "bullish"
              [] s = "Bearish" -> "bearish"
              [] s = "HOLD" -> "hold"
              [] s = "INCREASE" -> "increase"
              [] s = "Decrease" -> "decrease"
              [] s = "Bob@x.io" -> "bob@x.io"
              [] OTHER -> s

\* interval_minutes arguments tried (all positive):
\* 13, 6, 3, 2, 1, 1 and 0 points
Intervals == {iv \in {27, 30, 60, 100, 195, 200, 390, 400} :
                 SessionMinutes \div iv <= MaxPoints}

\* mutant of Points: the quotient rounded up
PointsRoundedUp(iv) == (SessionMinutes + iv - 1) \div iv

\* points = int(session_minutes // interval_minutes)
Points(iv) == SessionMinutes \div iv

\* outcomes of the draws made once per call (lines 252-267)
SetupDraws ==
    { [prev_close |-> 40000,  jitter |-> -2000, trend |-> 350, neutral |-> -80,
       burst |-> 1600, center |-> 450, shock |-> 3200],
      [prev_close |-> 123456, jitter |-> 1999,  trend |-> 150, neutral |-> 80,
       burst |-> 800,  center |-> 350, shock |-> 1500] }

\* outcomes of the draws and library calls of one loop iteration
\* (lines 274-285)
StepDraws ==
    { [exp |-> 1000, sin |-> -1000, amp |-> 1200, noise |-> -400,
       volume |-> 250000],
      [exp |-> 3,    sin |-> 1000,  amp |-> 400,  noise |-> 400,
       volume |-> 2500000] }

\* mutant of BaseTrend: the tag looked up as it was passed
BaseTrendCaseSensitive(b, d) ==
    LET sentiment == IF b = NoBias \/ b = "" THEN "neutral" ELSE b
    IN  IF sentiment \in {"buy", "bullish", "increase"} THEN d.trend
        ELSE IF sentiment \in {"sell", "bearish", "decrease"} THEN -d.trend
        ELSE d.neutral

\* the dict lookup of lines 255-263
BaseTrend(b, d) ==
    LET sentiment == Lower(IF b = NoBias \/ b = "" THEN "neutral" ELSE b)
    IN  IF sentiment \in {"buy", "bullish", "increase"} THEN d.trend
        ELSE IF sentiment \in {"sell", "bearish", "decrease"} THEN -d.trend
        ELSE d.neutral

\* (1 if base_trend >= 0 else -1)
TrendSign(bt) == IF bt >= 0 THEN 1 ELSE -1

\* progress = i / (points - 1), permille; called with points # 1 only
Progress(k, n) == (k * 1000) \div (n - 1)

\* increment = morning_factor + trend_component + wave + shock + noise
Increment(k, n, bt, mb, sc, sm, d) ==
    LET progress == Progress(k, n)
        morning_factor == (mb * d.exp) \div 1000
        trend_component == (bt * (1000 - (400 * progress) \div 1000)) \div 1000
        wave == (d.sin * d.amp) \div 1000
        dist == Abs(progress - sc)
        shock == IF dist < 80 THEN (sm * (80 - dist)) \div 80 ELSE 0
    IN  morning_factor + trend_component + wave + shock + d.noise

\* mutant of NextPrice: the floor left out
NextPriceNoFloor(p, inc) == p + inc

\* price = max(1, price + increment)
NextPrice(p, inc) == Max(PriceFloor, p + inc)

\* volume = random.randint(...); if progress < 0.15 or progress > 0.85:
\*     volume = int(volume * 1.4)
Volume(k, n, v) ==
    IF 100 * k < 15 * (n - 1) \/ 100 * k > 85 * (n - 1)
    THEN (v * 14) \div 10
    ELSE v

\* mutant of Timestamp: the steps counted from 1
TimestampFromOne(k, iv) == SessionStart + (k + 1) * iv

\* timestamp = start_time + timedelta(minutes=i * interval_minutes),
\* in minutes after the midnight that starts the session day
Timestamp(k, iv) == SessionStart + k * iv

\* datetime.isoformat() of the session day's midnight plus t minutes:
\* the date as the number of days after the session day, then the fields
\* of the time of day
IsoFormat(t) ==
    [day |-> t \div 1440,
     hour |-> (t % 1440) \div 60,
     minute |-> t % 60,
     second |-> 0]

\* mutant of PricePoint: prev_close follows the running price
PricePointRunningClose(t, p, v, c) ==
    [time |-> IsoFormat(t), price |-> Round2(p), volume |-> v,
     prev_close |-> Round2(p)]

\* the record appended by lines 289-296
PricePoint(t, p, v, c) ==
    [time |-> IsoFormat(t), price |-> Round2(p), volume |-> v,
     prev_close |-> Round2(c)]

PriceFrame ==
    UNCHANGED <<indexVars, modalVars, tallyVars, analyzerVars,
                indicesVars, signalsVars, chartVars, sessionVars>>
IndexFrame ==
    UNCHANGED <<priceVars, modalVars, tallyVars, analyzerVars,
                indicesVars, signalsVars, chartVars, sessionVars>>
ModalFrame ==
    UNCHANGED <<priceVars, indexVars, tallyVars, analyzerVars,
                indicesVars, signalsVars, chartVars, sessionVars>>
TallyFrame ==
    UNCHANGED <<priceVars, indexVars, modalVars, analyzerVars,
                indicesVars, signalsVars, chartVars, sessionVars>>
AnalyzerFrame ==
    UNCHANGED <<priceVars, indexVars, modalVars, tallyVars,
                indicesVars, signalsVars, chartVars, sessionVars>>
IndicesFrame ==
    UNCHANGED <<priceVars, indexVars, modalVars, tallyVars,
                analyzerVars, signalsVars, chartVars, sessionVars>>
SignalsFrame ==
    UNCHANGED <<priceVars, indexVars, modalVars, tallyVars,
                analyzerVars, indicesVars, chartVars, sessionVars>>
ChartFrame ==
    UNCHANGED <<priceVars, indexVars, modalVars, tallyVars,
                analyzerVars, indicesVars, signalsVars, sessionVars>>
SessionFrame ==
    UNCHANGED <<priceVars, indexVars, modalVars, tallyVars,
                analyzerVars, indicesVars, signalsVars, chartVars>>

\* lines 247-268: the call up to the loop
PriceCall ==
    /\ pc = "idle"
    /\ \E iv \in Intervals, b \in Biases, d \in SetupDraws :
         LET bt == BaseTrend(b, d)
         IN  /\ interval_minutes' = iv
             /\ bias' = b
             /\ points' = Points(iv)
             /\ prev_close' = d.prev_close
             /\ price' = d.prev_close + d.jitter
             /\ base_trend' = bt
             /\ morning_burst' = d.burst * TrendSign(bt)
             /\ shock_center' = d.center
             /\ shock_magnitude' = d.shock * TrendSign(bt)
    /\ i' = 0
    /\ series' = <<>>
    /\ pc' = "loop"
    /\ PriceFrame

\* lines 270-296: one iteration of the loop; i / (points - 1) raises
\* ZeroDivisionError when points = 1
PriceLoopStep ==
    /\ pc = "loop"
    /\ i < points
    /\ IF points - 1 = 0
       THEN /\ pc' = "ZeroDivisionError"
            /\ UNCHANGED <<i, price, series>>
       ELSE \E d \in StepDraws :
              LET p == NextPrice(price,
                           Increment(i, points, base_trend, morning_burst,
                                     shock_center, shock_magnitude, d))
              IN  /\ price' = p
                  /\ series' = Append(series,
                         PricePoint(Timestamp(i, interval_minutes), p,
                                    Volume(i, points, d.volume), prev_close))
                  /\ i' = i + 1
                  /\ pc' = "loop"
    /\ UNCHANGED <<interval_minutes, bias, points, prev_close, base_trend,
                   morning_burst, shock_center, shock_magnitude>>
    /\ PriceFrame

\* line 298: return series
PriceReturn ==
    /\ pc = "loop"
    /\ i >= points
    /\ pc' = "returned"
    /\ UNCHANGED <<interval_minutes, bias, points, i, prev_close, price,
                   base_trend, morning_burst, shock_center, shock_magnitude,
                   series>>
    /\ PriceFrame

PriceInit ==
    /\ pc = "idle"
    /\ interval_minutes = 5
    /\ bias = NoBias
    /\ points = 0
    /\ i = 0
    /\ prev_close = 0
    /\ price = 0
    /\ base_trend = 0
    /\ morning_burst = 0
    /\ shock_center = 0
    /\ shock_magnitude = 0
    /\ series = <<>>

----------------------------------------------------------------------------
(* _generate_index_series                                                  *)

IndexFloor == 500000           \* max(500, ...), mills

\* `latest` arguments tried, mills
Latests == {400000, 3000000, 3000004, 3000005, 3000015, 15199999}

\* `points` arguments tried
IndexPointCounts == -2 .. MaxIndexPoints

\* outcomes of random.uniform(-100, 120), mills
WalkDraws == {-100000, 120000}

\* current = max(500, current + random.uniform(-100, 120))
Walk(c, d) == Max(IndexFloor, c + d)

\* mutant of AnchorLast: the first point is overwritten
AnchorFirst(s, l) == [s EXCEPT ![1].value = Round2(l)]

\* series[-1]["value"] = round(latest, 2); called on a non-empty list only
AnchorLast(s, l) == [s EXCEPT ![Len(s)].value = Round2(l)]

\* mutant of RangeLen: a negative count walked through like a positive one
RangeLenAbs(n) == Abs(n)

\* number of iterations of `for step in reversed(range(points))`: range of
\* a negative count is empty
RangeLen(n) == Max(n, 0)

\* lines 99-101
IndexCall ==
    /\ idx_pc = "idle"
    /\ \E l \in Latests, n \in IndexPointCounts :
         /\ latest' = l
         /\ idx_points' = n
         /\ idx_left' = RangeLen(n)
         /\ current' = l
    /\ idx_series' = <<>>
    /\ idx_pc' = "loop"
    /\ IndexFrame

\* lines 102-104: one iteration, step = idx_left - 1
IndexLoopStep ==
    /\ idx_pc = "loop"
    /\ idx_left > 0
    /\ \E d \in WalkDraws :
         LET c == Walk(current, d)
         IN  /\ current' = c
             /\ idx_series' = Append(idx_series,
                                  [step |-> idx_left - 1, value |-> Round2(c)])
    /\ idx_left' = idx_left - 1
    /\ UNCHANGED <<idx_pc, latest, idx_points>>
    /\ IndexFrame

\* lines 105-107: sort, overwrite the last value, return; series[-1] raises
\* IndexError on an empty list
IndexFinish ==
    /\ idx_pc = "loop"
    /\ idx_left = 0
    /\ LET sorted == SortByStep(idx_series)
       IN  IF sorted = <<>>
           THEN /\ idx_pc' = "IndexError"
                /\ idx_series' = sorted
           ELSE /\ idx_pc' = "returned"
                /\ idx_series' = AnchorLast(sorted, latest)
    /\ UNCHANGED <<latest, idx_points, idx_left, current>>
    /\ IndexFrame

IndexInit ==
    /\ idx_pc = "idle"
    /\ latest = 0
    /\ idx_points = 18
    /\ idx_left = 0
    /\ current = 0
    /\ idx_series = <<>>

----------------------------------------------------------------------------
(* StockPredictionModal                                                    *)

\* Python's None where the other values are records
NoData == [none |-> TRUE]

\* company_snapshot: price = round(uniform(40, 400), 2), mills
SnapshotPrices == {40000, 100000, 400000}

\* company_snapshot: change = round(uniform(-5, 5), 2), mills
SnapshotChanges == {-5000, -10, 0, 10, 5000}

\* mutant of ConfidenceDraws: the upper end one too far
ConfidenceDrawsPastEnd == {65, 78, 91}

\* outcomes of random.randint(65, 90)
ConfidenceDraws == {65, 78, 90}

\* change_percent = snapshot["change"] / snapshot["price"] * 100,
\* in 1/1000 of a percent; the quotient keeps the sign of change
ChangePercent(change, p) == (change * 100 * 1000) \div p

\* mutant of Direction: >= in place of >
DirectionNonNegative(cp) == IF cp >= 0 THEN "bullish" ELSE "bearish"

\* direction = "bullish" if stock_data.change_percent > 0 else "bearish"
Direction(cp) == IF cp > 0 THEN "bullish" ELSE "bearish"

\* mutant of TargetPrice: the change extrapolated once
TargetPriceOnce(p, cp) == p + (p * cp) \div (100 * 1000)

\* target_price = current_price * (1 + (change_percent / 100) * 2), mills
TargetPrice(p, cp) == p + (p * 2 * cp) \div (100 * 1000)

\* mutant of GeneratePredictionData: the direction follows the random draw
GeneratePredictionDataDrawn(sd, conf) ==
    [sd EXCEPT !.prediction =
        [direction |-> IF conf >= 78 THEN "bullish" ELSE "bearish",
         confidence |-> conf,
         target_price |-> TargetPrice(sd.current_price, sd.change_percent),
         timeframe |-> "3 months"]]

\* mutant of GeneratePredictionData: the target becomes the current price
GeneratePredictionDataCompounding(sd, conf) ==
    [sd EXCEPT !.prediction =
        [direction |-> Direction(sd.change_percent),
         confidence |-> conf,
         target_price |-> TargetPrice(sd.current_price, sd.change_percent),
         timeframe |-> "3 months"],
     !.current_price = TargetPrice(sd.current_price, sd.change_percent)]

\* lines 75-90: builds the Prediction and stores it in the record passed in
GeneratePredictionData(sd, conf) ==
    [sd EXCEPT !.prediction =
        [direction |-> Direction(sd.change_percent),
         confidence |-> conf,
         target_price |-> TargetPrice(sd.current_price, sd.change_percent),
         timeframe |-> "3 months"]]

\* mutant of FetchStockData: self.loading is left as it was
FetchStockDataStillLoading ==
    /\ \E p \in SnapshotPrices, c \in SnapshotChanges :
         stock_data' = [current_price |-> p,
                        change |-> c,
                        change_percent |-> ChangePercent(c, p),
                        prediction |-> NoData]
    /\ predictions' = <<>>
    /\ series_calls' = 0
    /\ UNCHANGED <<loading, modal_data>>
    /\ ModalFrame

\* lines 54-73
FetchStockData ==
    /\ \E p \in SnapshotPrices, c \in SnapshotChanges :
         stock_data' = [current_price |-> p,
                        change |-> c,
                        change_percent |-> ChangePercent(c, p),
                        prediction |-> NoData]
    /\ loading' = FALSE
    /\ predictions' = <<>>
    /\ series_calls' = 0
    /\ UNCHANGED modal_data
    /\ ModalFrame

\* line 97: the payload returned while nothing was fetched
LoadingPayload == [loading |-> TRUE, message |-> "Loading stock data..."]

\* lines 95-109; of the returned dict the fields loading, stock_data and
\* prediction are kept (ticker and related_articles do not touch the modal's
\* state); the company_price_series call of line 108 is counted
GetModalData ==
    /\ Len(predictions) < MaxCalls
    /\ IF loading \/ stock_data = NoData
       THEN /\ modal_data' = LoadingPayload
            /\ UNCHANGED <<stock_data, predictions, series_calls>>
       ELSE \E conf \in ConfidenceDraws :
              LET data == GeneratePredictionData(stock_data, conf)
              IN  /\ stock_data' = data
                  /\ predictions' = Append(predictions, data.prediction)
                  /\ series_calls' = series_calls + 1
                  /\ modal_data' = [loading |-> FALSE,
                                    stock_data |-> data,
                                    prediction |-> data.prediction]
    /\ UNCHANGED loading
    /\ ModalFrame

\* lines 47-52
ModalInit ==
    /\ loading = TRUE
    /\ stock_data = NoData
    /\ modal_data = NoData
    /\ predictions = <<>>
    /\ series_calls = 0

----------------------------------------------------------------------------
(* sentiment_summary                                                       *)

TopN == 5                      \* [:5]

\* tickers of COMPANIES, in declaration order
CompanyTickers == <<"AAPL", "MSFT", "AMZN", "NVDA", "TSLA",
                    "JPM", "NFLX", "DIS", "GOOGL", "META">>

Stances == <<"buy", "hold", "sell">>

\* the articles batches are made of: the k-th ticker of COMPANIES with the
\* stance k selects cyclically
ArticleOf(k) == [ticker |-> CompanyTickers[k],
                 stance |-> Stances[((k - 1) % 3) + 1]]

\* tickers occurring in a batch
TickersOf(batch) == {batch[k].ticker : k \in 1 .. Len(batch)}

\* mutant of StanceCounts: = 1 in place of += 1
RECURSIVE StanceCountsAssigned(_)
StanceCountsAssigned(batch) ==
    IF batch = <<>> THEN [s \in {"buy", "hold", "sell"} |-> 0]
    ELSE LET rest == StanceCountsAssigned(SubSeq(batch, 1, Len(batch) - 1))
             s == batch[Len(batch)].stance
         IN  [rest EXCEPT ![s] = 1]

\* counts[article["stance"]] += 1 over the batch
RECURSIVE StanceCounts(_)
StanceCounts(batch) ==
    IF batch = <<>> THEN [s \in {"buy", "hold", "sell"} |-> 0]
    ELSE LET rest == StanceCounts(SubSeq(batch, 1, Len(batch) - 1))
             s == batch[Len(batch)].stance
         IN  [rest EXCEPT ![s] = rest[s] + 1]

\* ticker_counts[t] = ticker_counts.get(t, 0) + 1 on the dict kept as the
\* sequence of its items in insertion order
Bump(tc, t) ==
    IF \E k \in 1 .. Len(tc) : tc[k][1] = t
    THEN [k \in 1 .. Len(tc) |->
             IF tc[k][1] = t THEN <<t, tc[k][2] + 1>> ELSE tc[k]]
    ELSE Append(tc, <<t, 1>>)

\* ticker_counts after the loop of lines 144-146
RECURSIVE TickerCounts(_)
TickerCounts(batch) ==
    IF batch = <<>> THEN <<>>
    ELSE Bump(TickerCounts(SubSeq(batch, 1, Len(batch) - 1)),
              batch[Len(batch)].ticker)

\* mutant of InsertByCount: e goes before the items of equal count
\* (an ascending sort that is reversed afterwards)
RECURSIVE InsertByCountBeforeEqual(_, _)
InsertByCountBeforeEqual(s, e) ==
    IF s = <<>> THEN <<e>>
    ELSE IF s[Len(s)][2] > e[2] THEN Append(s, e)
    ELSE Append(InsertByCountBeforeEqual(SubSeq(s, 1, Len(s) - 1), e),
                s[Len(s)])

\* insertion of e after every item whose count is not smaller
\* (sorted(..., reverse=True) keeps equal items in their original order)
RECURSIVE InsertByCount(_, _)
InsertByCount(s, e) ==
    IF s = <<>> THEN <<e>>
    ELSE IF s[Len(s)][2] >= e[2] THEN Append(s, e)
    ELSE Append(InsertByCount(SubSeq(s, 1, Len(s) - 1), e), s[Len(s)])

\* mutant of SortByCount: reverse=True left out (ascending, stable)
RECURSIVE InsertByCountAscending(_, _)
InsertByCountAscending(s, e) ==
    IF s = <<>> THEN <<e>>
    ELSE IF s[Len(s)][2] <= e[2] THEN Append(s, e)
    ELSE Append(InsertByCountAscending(SubSeq(s, 1, Len(s) - 1), e), s[Len(s)])

RECURSIVE SortByCountAscending(_)
SortByCountAscending(s) ==
    IF s = <<>> THEN <<>>
    ELSE InsertByCountAscending(SortByCountAscending(SubSeq(s, 1, Len(s) - 1)),
                                s[Len(s)])

\* sorted(ticker_counts.items(), key=lambda kv: kv[1], reverse=True)
RECURSIVE SortByCount(_)
SortByCount(s) ==
    IF s = <<>> THEN <<>>
    ELSE InsertByCount(SortByCount(SubSeq(s, 1, Len(s) - 1)), s[Len(s)])

\* [:5]
Top(s) == SubSeq(s, 1, IF Len(s) < TopN THEN Len(s) ELSE TopN)

\* lines 141-148
SentimentSummaryOf(batch) ==
    [counts |-> StanceCounts(batch),
     top |-> Top(SortByCount(TickerCounts(batch)))]

\* the caller extends the batch by one article; tickers enter a batch in
\* the order of COMPANIES (sentiment_summary compares tickers for equality
\* only, so batches are enumerated up to renaming of tickers)
AddArticle ==
    /\ Len(articles) < MaxArticles
    /\ \E k \in 1 .. NumTickers :
         /\ k <= Cardinality(TickersOf(articles)) + 1
         /\ articles' = Append(articles, ArticleOf(k))
    /\ summary' = NoData
    /\ last_summary' = NoData
    /\ TallyFrame

\* mutant of SentimentSummary: the loop pops the articles off the batch
SentimentSummaryConsuming ==
    /\ last_summary = NoData
    /\ summary' = SentimentSummaryOf(articles)
    /\ last_summary' = summary
    /\ articles' = <<>>
    /\ TallyFrame

\* a call of sentiment_summary(articles), the first or the second on
\* this batch; the function only reads its argument
SentimentSummary ==
    /\ last_summary = NoData
    /\ summary' = SentimentSummaryOf(articles)
    /\ last_summary' = summary
    /\ UNCHANGED articles
    /\ TallyFrame

TallyInit ==
    /\ articles = <<>>
    /\ summary = NoData
    /\ last_summary = NoData

----------------------------------------------------------------------------
(* SentimentAnalyzer                                                       *)

\* an article without the key "sentiment"
NoSentiment == "<missing>"

\* the "sentiment" entries of the articles analyzed
Sentiments == <<"positive", "negative", "neutral", NoSentiment>>

\* round(x) of the quotient n / d (d > 0): nearest integer, ties to even.
\* For the totals analyzed this is also the result of the float
\* expression round(count / total * 100).
RoundQuotient(n, d) ==
    LET q == n \div d
        r == n % d
    IN  IF 2 * r < d THEN q
        ELSE IF 2 * r > d THEN q + 1
        ELSE IF q % 2 = 0 THEN q ELSE q + 1

\* mutant of Percentage: int() in place of round()
PercentageTruncated(count, total) ==
    IF total = 0 THEN 0 ELSE (count * 100) \div total

\* line 65: 0 if self.total == 0 else round(count / self.total * 100)
Percentage(count, total) ==
    IF total = 0 THEN 0 ELSE RoundQuotient(count * 100, total)

\* lines 48-50: an analyzer is constructed on the batch extended by one
\* article; batches are enumerated up to the order of their articles
\* (the analyzer only counts them), in the order of Sentiments
NewAnalyzer ==
    /\ Len(sa_articles) < MaxAnalyzed
    /\ \E k \in 1 .. Len(Sentiments) :
         /\ \A m \in 1 .. Len(sa_articles) :
                \E j \in 1 .. k : Sentiments[j] = sa_articles[m].sentiment
         /\ sa_articles' = Append(sa_articles, [sentiment |-> Sentiments[k]])
         /\ sa_total' = Len(sa_articles) + 1
    /\ sa_percentage' = NoData
    /\ sa_analysis' = NoData
    /\ AnalyzerFrame

\* lines 64-65
GetPercentage ==
    /\ \E count \in 0 .. sa_total + 1 :
         sa_percentage' = [count |-> count,
                           value |-> Percentage(count, sa_total)]
    /\ UNCHANGED <<sa_articles, sa_total, sa_analysis>>
    /\ AnalyzerFrame

\* mutant of SentimentOf: an article without the key keeps no label
SentimentOfNoDefault(article) == article.sentiment

\* article.get("sentiment", "neutral")
SentimentOf(article) ==
    IF article.sentiment = NoSentiment THEN "neutral" ELSE article.sentiment

\* lines 52-56 and counts.get(label, 0): the articles counted under a label
RECURSIVE SentimentCount(_, _)
SentimentCount(batch, label) ==
    IF batch = <<>> THEN 0
    ELSE SentimentCount(SubSeq(batch, 1, Len(batch) - 1), label)
         + (IF SentimentOf(batch[Len(batch)]) = label THEN 1 ELSE 0)

\* SentimentData(count, self.get_percentage(count), color, label)
SentimentData(count, total, color, label) ==
    [count |-> count, percentage |-> Percentage(count, total),
     color |-> color, label |-> label]

\* lines 67-77
GetSentimentAnalysis ==
    /\ sa_analysis = NoData
    /\ LET positive == SentimentCount(sa_articles, "positive")
           negative == SentimentCount(sa_articles, "negative")
           neutral == SentimentCount(sa_articles, "neutral")
       IN  sa_analysis' =
               [positive |-> SentimentData(positive, sa_total, "green",
                                           "Positive"),
                negative |-> SentimentData(negative, sa_total, "red",
                                           "Negative"),
                neutral |-> SentimentData(neutral, sa_total, "yellow",
                                          "Neutral"),
                total |-> sa_total]
    /\ UNCHANGED <<sa_articles, sa_total, sa_percentage>>
    /\ AnalyzerFrame

\* lines 48-50, on the empty batch
AnalyzerInit ==
    /\ sa_articles = <<>>
    /\ sa_total = 0
    /\ sa_percentage = NoData
    /\ sa_analysis = NoData

----------------------------------------------------------------------------
(* fake_indices and the breadth of render_indices_tab                      *)

DefaultIndexPoints == 18       \* points: int = 18

\* REGION_MAP.items(), in declaration order
RegionMap == << <<"S&P 500", "Americas">>, <<"NASDAQ", "Americas">>,
                <<"Dow Jones", "Americas">>, <<"Russell 2000", "Americas">>,
                <<"FTSE 100", "EMEA">>, <<"DAX", "EMEA">>,
                <<"CAC 40", "EMEA">>, <<"Nikkei 225", "APAC">>,
                <<"Hang Seng", "APAC">>, <<"Kospi", "APAC">>,
                <<"ASX 200", "APAC">> >>

\* outcomes of the 18 draws of one _generate_index_series call, by step
WalkUp == [k \in 0 .. DefaultIndexPoints - 1 |-> 120000]
WalkDown == [k \in 0 .. DefaultIndexPoints - 1 |-> -100000]
WalkMixed ==
    [k \in 0 .. DefaultIndexPoints - 1 |->
        IF k % 2 = 0 THEN 120000 ELSE -100000]

\* outcomes of the draws of one iteration of fake_indices:
\* base = uniform(3000, 15000), change = uniform(-150, 200),
\* volatility = randint(80, 180) and the walk of the series
IndexDraws ==
    { [base |-> 3000000,  change |-> 200000,  volatility |-> 80,
       walk |-> WalkUp],
      [base |-> 3000000,  change |-> -150000, volatility |-> 180,
       walk |-> WalkDown],
      [base |-> 15000000, change |-> -4,      volatility |-> 100,
       walk |-> WalkMixed],
      [base |-> 9000000,  change |-> 0,       volatility |-> 130,
       walk |-> WalkMixed] }

\* the list built by lines 100-104, from `left` iterations to go
RECURSIVE WalkSeries(_, _, _)
WalkSeries(c, left, w) ==
    IF left <= 0 THEN <<>>
    ELSE LET c2 == Walk(c, w[left - 1])
         IN  <<[step |-> left - 1, value |-> Round2(c2)]>>
                 \o WalkSeries(c2, left - 1, w)

\* _generate_index_series(l, n) for n >= 1 and the draws w
GenerateIndexSeries(l, n, w) == AnchorLast(SortByStep(WalkSeries(l, n, w)), l)

\* mutant of ChangePct: the current value as divisor
ChangePctOfCurrent(change, base) ==
    (change * 100) \div ((base + change) \div 1000)

\* change_pct = (change / base) * 100, in 1/1000 of a percent; the
\* divisor is taken in whole units
ChangePct(change, base) == (change * 100) \div (base \div 1000)

\* trend = "Bullish" if change >= 0 else "Bearish"
Trend(change) == IF change >= 0 THEN "Bullish" ELSE "Bearish"

\* mutant of Snapshot: the series is generated from the base
SnapshotSeriesFromBase(entry, d) ==
    LET current_value == d.base + d.change
    IN  [name |-> entry[1],
         region |-> entry[2],
         value |-> Round2(current_value),
         change |-> Round2(d.change),
         change_pct |-> Round2(ChangePct(d.change, d.base)),
         trend |-> Trend(d.change),
         volatility |-> d.volatility,
         series |-> GenerateIndexSeries(d.base, DefaultIndexPoints, d.walk)]

\* the dict appended by lines 118-129
Snapshot(entry, d) ==
    LET current_value == d.base + d.change
    IN  [name |-> entry[1],
         region |-> entry[2],
         value |-> Round2(current_value),
         change |-> Round2(d.change),
         change_pct |-> Round2(ChangePct(d.change, d.base)),
         trend |-> Trend(d.change),
         volatility |-> d.volatility,
         series |-> GenerateIndexSeries(current_value, DefaultIndexPoints,
                                        d.walk)]

\* line 111
FakeIndicesCall ==
    /\ fi_pc = "idle"
    /\ fi_pc' = "loop"
    /\ snapshots' = <<>>
    /\ UNCHANGED <<fi_base, fi_change, fi_current_value, fi_change_pct,
                   breadth>>
    /\ IndicesFrame

\* lines 112-129: one iteration of the loop
FakeIndicesStep ==
    /\ fi_pc = "loop"
    /\ Len(snapshots) < NumIndices
    /\ \E d \in IndexDraws :
         /\ fi_base' = d.base
         /\ fi_change' = d.change
         /\ fi_current_value' = d.base + d.change
         /\ fi_change_pct' = ChangePct(d.change, d.base)
         /\ snapshots' = Append(snapshots,
                                Snapshot(RegionMap[Len(snapshots) + 1], d))
    /\ UNCHANGED <<fi_pc, breadth>>
    /\ IndicesFrame

\* line 130
FakeIndicesReturn ==
    /\ fi_pc = "loop"
    /\ Len(snapshots) = NumIndices
    /\ fi_pc' = "returned"
    /\ UNCHANGED <<fi_base, fi_change, fi_current_value, fi_change_pct,
                   snapshots, breadth>>
    /\ IndicesFrame

\* mutant of CountChange: > 0 in place of >= 0
RECURSIVE CountChangeStrict(_, _)
CountChangeStrict(batch, nonneg) ==
    IF batch = <<>> THEN 0
    ELSE CountChangeStrict(SubSeq(batch, 1, Len(batch) - 1), nonneg)
         + (IF nonneg
            THEN (IF batch[Len(batch)].change > 0 THEN 1 ELSE 0)
            ELSE (IF batch[Len(batch)].change < 0 THEN 1 ELSE 0))

\* number of records of the batch whose change is >= 0 (flag TRUE) or
\* < 0 (flag FALSE): df[df["change"] >= 0].shape[0]
RECURSIVE CountChange(_, _)
CountChange(batch, nonneg) ==
    IF batch = <<>> THEN 0
    ELSE CountChange(SubSeq(batch, 1, Len(batch) - 1), nonneg)
         + (IF (batch[Len(batch)].change >= 0) = nonneg THEN 1 ELSE 0)

\* sum of the change_pct column
RECURSIVE SumChangePct(_)
SumChangePct(batch) ==
    IF batch = <<>> THEN 0
    ELSE SumChangePct(SubSeq(batch, 1, Len(batch) - 1))
         + batch[Len(batch)].change_pct

\* app.py lines 668-671, on the batch main passes (app.py:893, 909)
RenderIndicesTab ==
    /\ fi_pc = "returned"
    /\ breadth = NoData
    /\ breadth' = [bullish |-> CountChange(snapshots, TRUE),
                   bearish |-> CountChange(snapshots, FALSE),
                   avg_change |-> SumChangePct(snapshots) \div Len(snapshots)]
    /\ UNCHANGED <<fi_pc, fi_base, fi_change, fi_current_value,
                   fi_change_pct, snapshots>>
    /\ IndicesFrame

IndicesInit ==
    /\ fi_pc = "idle"
    /\ fi_base = 0
    /\ fi_change = 0
    /\ fi_current_value = 0
    /\ fi_change_pct = 0
    /\ snapshots = <<>>
    /\ breadth = NoData

----------------------------------------------------------------------------
(* fake_signals                                                            *)

\* COMPANIES, in declaration order
Companies == << <<"AAPL", "Apple">>, <<"MSFT", "Microsoft">>,
                <<"AMZN", "Amazon">>, <<"NVDA", "NVIDIA">>,
                <<"TSLA", "Tesla">>, <<"JPM", "JPMorgan">>,
                <<"NFLX", "Netflix">>, <<"DIS", "Disney">>,
                <<"GOOGL", "Alphabet">>, <<"META", "Meta">> >>

\* outcomes of the draws of one iteration (lines 76-86)
CardDraws ==
    { [direction |-> "BUY",  confidence |-> 55, signals |-> 3,
       horizon |-> "1d", risk |-> "Low"],
      [direction |-> "HOLD", confidence |-> 90, signals |-> 10,
       horizon |-> "1w", risk |-> "High"],
      [direction |-> "SELL", confidence |-> 72, signals |-> 6,
       horizon |-> "3d", risk |-> "Medium"] }

\* outcomes of the three randint draws of the bands (lines 92-94)
BandDraws == { <<30, 20, 20>>, <<40, 40, 30>> }

\* str.lower() on the directions
LowerDirection(dir) == CASE dir = "BUY" -> "buy"
                         [] dir = "HOLD" -> "hold"
                         [] dir = "SELL" -> "sell"

\* mutant of SignalCard: the lower-cased direction of the summary is stored
SignalCardLowered(entry, d) ==
    [ticker |-> entry[1],
     company |-> entry[2],
     direction |-> LowerDirection(d.direction),
     confidence |-> d.confidence,
     signals |-> d.signals,
     summary |-> LowerDirection(d.direction),
     horizon |-> d.horizon,
     risk |-> d.risk]

\* the dict appended by lines 77-88; of the summary text the part that
\* varies with the draw, direction.lower(), is kept
SignalCard(entry, d) ==
    [ticker |-> entry[1],
     company |-> entry[2],
     direction |-> d.direction,
     confidence |-> d.confidence,
     signals |-> d.signals,
     summary |-> LowerDirection(d.direction),
     horizon |-> d.horizon,
     risk |-> d.risk]

\* line 74
FakeSignalsCall ==
    /\ fs_pc = "idle"
    /\ fs_pc' = "loop"
    /\ cards' = <<>>
    /\ signals' = NoData
    /\ SignalsFrame

\* lines 75-88: one iteration of the loop over COMPANIES
FakeSignalsStep ==
    /\ fs_pc = "loop"
    /\ Len(cards) < Len(Companies)
    /\ \E d \in CardDraws :
         cards' = Append(cards, SignalCard(Companies[Len(cards) + 1], d))
    /\ UNCHANGED <<fs_pc, signals>>
    /\ SignalsFrame

\* lines 89-96
FakeSignalsReturn ==
    /\ fs_pc = "loop"
    /\ Len(cards) = Len(Companies)
    /\ \E b \in BandDraws :
         signals' = [cards |-> cards,
                     bands |-> << [label |-> "Positive", percent |-> b[1]],
                                  [label |-> "Negative", percent |-> b[2]],
                                  [label |-> "Neutral", percent |-> b[3]] >>]
    /\ fs_pc' = "returned"
    /\ UNCHANGED cards
    /\ SignalsFrame

SignalsInit ==
    /\ fs_pc = "idle"
    /\ cards = <<>>
    /\ signals = NoData

----------------------------------------------------------------------------
(* StockChart                                                              *)

ChartPoints == 7               \* range(7)
MarketOpen == 570              \* 09:30, in minutes after midnight

\* round(x, 1) on a value in mills: nearest multiple of 100 mills, ties to
\* even
Round1(x) ==
    LET q == x \div 100
        r == x % 100
    IN  IF r < 50 THEN q * 100
        ELSE IF r > 50 THEN (q + 1) * 100
        ELSE IF q % 2 = 0 THEN q * 100 ELSE (q + 1) * 100

\* constructor arguments tried: prices and changes in the ranges of
\* company_snapshot (mills), change_percent in 1/1000 of a percent, with
\* and against the sign of the change
ChartPrices == {40000, 100000, 400000}
ChartChanges == {-5000, -10, 0, 10, 5000}
ChartChangePercents == {-12500, -10, 0, 10, 12500}

\* outcomes of the draws of one to_dict call: per point
\* (random.random() - 0.5) * volatility in permille (within -15 .. 15) and
\* the volume, then the two volumes of the stats
ChartDraws ==
    { [walk |-> [k \in 0 .. ChartPoints - 1 |-> -14],
       point_volume |-> 500000, volume |-> 1000000, avg_volume |-> 5000000],
      [walk |-> [k \in 0 .. ChartPoints - 1 |-> IF k % 2 = 0 THEN 14 ELSE 0],
       point_volume |-> 2500000, volume |-> 6000000, avg_volume |-> 2000000] }

\* time.strftime("%I:%M %p") of t minutes after midnight
StrfTime12(t) ==
    LET h == (t \div 60) % 24
    IN  [hour |-> IF h % 12 = 0 THEN 12 ELSE h % 12,
         minute |-> t % 60,
         ampm |-> IF h < 12 THEN "AM" ELSE "PM"]

\* lines 39-59: the point of step k; the last point is the current price.
\* Called with current_price # change only (base_price is a divisor).
ChartDataPoint(c, k, d) ==
    LET base_price == c.current_price - c.change
        trend_part == (c.change * k) \div 6
        random_walk == (base_price * d.walk[k]) \div 1000
        p == IF k = 6 THEN c.current_price
             ELSE base_price + trend_part + random_walk
    IN  [time |-> StrfTime12(MarketOpen + 60 * k),
         price |-> Round2(p),
         volume |-> d.point_volume]

\* generate_chart_data
GenerateChartData(c, d) ==
    [k \in 1 .. ChartPoints |-> ChartDataPoint(c, k - 1, d)]

\* mutant of IsPositive: > in place of >=
IsPositiveStrict(change) == change > 0

\* is_positive = self.change >= 0
IsPositive(change) == change >= 0

\* line_color = "#10b981" if is_positive else "#ef4444"
LineColor(is_positive) == IF is_positive THEN "#10b981" ELSE "#ef4444"

\* lines 33-37
NewStockChart ==
    /\ \E t \in {CompanyTickers[1]}, p \in ChartPrices, c \in ChartChanges,
          cp \in ChartChangePercents :
         chart' = [ticker |-> t, current_price |-> p, change |-> c,
                   change_percent |-> cp]
    /\ chart_dict' = NoData
    /\ ChartFrame

\* lines 61-86; the close_time of the metadata (the wall clock) is left out
ToDict ==
    /\ chart # NoData
    /\ chart_dict = NoData
    /\ \E d \in ChartDraws :
         chart_dict' =
             [ticker |-> chart.ticker,
              current_price |-> chart.current_price,
              change |-> chart.change,
              change_percent |-> chart.change_percent,
              is_positive |-> IsPositive(chart.change),
              line_color |-> LineColor(IsPositive(chart.change)),
              chart_data |-> GenerateChartData(chart, d),
              stats |-> [days_range_low |->
                             Round2((chart.current_price * 98) \div 100),
                         days_range_high |->
                             Round2((chart.current_price * 102) \div 100),
                         volume |-> d.volume,
                         avg_volume |-> d.avg_volume,
                         market_cap |-> Round1(chart.current_price * 10)]]
    /\ UNCHANGED chart
    /\ ChartFrame

ChartInit ==
    /\ chart = NoData
    /\ chart_dict = NoData

----------------------------------------------------------------------------
(* st.session_state: login, logout and the three chat inputs               *)

NoUser == "<no user>"

\* emails of registered accounts, as typed into the login form
Accounts == {"ann@x.io", "Bob@x.io"}

\* prompts typed into the chat inputs
Prompts == {"", " ", "hi", " hi "}

\* str.strip() on the prompts tried
Strip(s) == CASE s = " " -> ""
              [] s = " hi " -> "hi"
              [] OTHER -> s

\* llm_utils.py lines 39-43
MissingKeyMessage == "OpenAI API key missing."

\* the completion request of llm_utils.py lines 87-92 raised
ApiError == "<raised>"

\* llm_utils.chat_with_researcher: the outcomes of one call; the request to
\* the API either returns a reply or raises
ChatWithResearcher(user_input, c) ==
    IF Strip(user_input) = "" THEN {""}
    ELSE IF c = "none" THEN {MissingKeyMessage}
    ELSE {"reply", ApiError}

\* the three statements shared by app.py lines 250-252, 842-844 and 883-885:
\* append the user message, ask the researcher, append the reply; an
\* exception of the request ends the script run after the first append.
\* Each of the three is preceded by
\* `if "chat_history" not in st.session_state: st.session_state.chat_history = []`
AppendExchange(h, content, prompt) ==
    /\ Len(h) + 2 <= MaxMessages
    /\ history_set' = TRUE
    /\ \E r \in ChatWithResearcher(prompt, client) :
         LET h1 == Append(h, [role |-> "user", content |-> content])
         IN  IF r = ApiError
             THEN /\ chat_history' = h1
                  /\ senders' = Append(senders, user)
                  /\ run' = "APIError"
             ELSE /\ chat_history' =
                         Append(h1, [role |-> "assistant", content |-> r])
                  /\ senders' = Append(Append(senders, user),
                                       user)
                  /\ run' = "ok"

\* llm_utils.py lines 27-36, run once when app.py imports the module: the
\* client exists when an API key was found
LoadLlmUtils ==
    /\ client = "unloaded"
    /\ client' \in {"none", "client"}
    /\ UNCHANGED <<user, history_set, chat_history, senders, run>>
    /\ SessionFrame

\* auth_ui.py lines 20-28: the login form submitted with the credentials of
\* a registered account while nobody is signed in
Login ==
    /\ client # "unloaded"
    /\ user = NoUser
    /\ \E email \in Accounts : user' = Lower(email)
    /\ run' = "ok"
    /\ UNCHANGED <<history_set, chat_history, senders, client>>
    /\ SessionFrame

\* mutant of Logout: the chat is cleared with the user
LogoutClearingHistory ==
    /\ client # "unloaded"
    /\ user # NoUser
    /\ user' = NoUser
    /\ chat_history' = <<>>
    /\ senders' = <<>>
    /\ run' = "ok"
    /\ UNCHANGED <<history_set, client>>
    /\ SessionFrame

\* app.py lines 865-870: the Logout button of a signed-in session
Logout ==
    /\ client # "unloaded"
    /\ user # NoUser
    /\ user' = NoUser
    /\ run' = "ok"
    /\ UNCHANGED <<history_set, chat_history, senders, client>>
    /\ SessionFrame

\* app.py lines 865-875, 311-315, 247-252: Send of the inline copilot with
\* the prompt p
InlineSendWith(p) ==
    /\ client # "unloaded"
    /\ user # NoUser
    /\ IF p = "" \/ Strip(p) = ""
       THEN /\ history_set' = TRUE
            /\ run' = "ok"
            /\ UNCHANGED <<chat_history, senders>>
       ELSE AppendExchange(chat_history, Strip(p), Strip(p))
    /\ UNCHANGED <<user, client>>
    /\ SessionFrame

InlineSend == \E p \in Prompts : InlineSendWith(p)

\* app.py lines 865-886: Send of the sidebar
SidebarSend ==
    /\ client # "unloaded"
    /\ user # NoUser
    /\ \E p \in Prompts : AppendExchange(chat_history, p, p)
    /\ UNCHANGED <<user, client>>
    /\ SessionFrame

\* app.py lines 828-845: Send of render_chat_tab
ChatTabSend ==
    /\ client # "unloaded"
    /\ \E p \in Prompts : AppendExchange(chat_history, p, p)
    /\ UNCHANGED <<user, client>>
    /\ SessionFrame

\* a new session: ensure_session_state sets user to None on its first run,
\* chat_history is not set
SessionInit ==
    /\ user = NoUser
    /\ history_set = FALSE
    /\ chat_history = <<>>
    /\ senders = <<>>
    /\ client = "unloaded"
    /\ run = "ok"

----------------------------------------------------------------------------
(* Specifications                                                          *)

Init ==
    /\ PriceInit /\ IndexInit /\ ModalInit /\ TallyInit /\ AnalyzerInit
    /\ IndicesInit /\ SignalsInit /\ ChartInit /\ SessionInit

IndicesNext ==
    FakeIndicesCall \/ FakeIndicesStep \/ FakeIndicesReturn \/ RenderIndicesTab
SpecIndices == Init /\ [][IndicesNext]_vars

SignalsNext == FakeSignalsCall \/ FakeSignalsStep \/ FakeSignalsReturn
SpecSignals == Init /\ [][SignalsNext]_vars

\* the two places that derive a percentage change
ChangeNext ==
    FetchStockData \/ FakeIndicesCall \/ FakeIndicesStep \/ FakeIndicesReturn
SpecChange == Init /\ [][ChangeNext]_vars

AnalyzerNext == NewAnalyzer \/ GetPercentage \/ GetSentimentAnalysis
SpecAnalyzer == Init /\ [][AnalyzerNext]_vars

ModalNext == FetchStockData \/ GetModalData
SpecModal == Init /\ [][ModalNext]_vars

TallyNext == AddArticle \/ SentimentSummary
SpecTally == Init /\ [][TallyNext]_vars

ChartNext == NewStockChart \/ ToDict
SpecChart == Init /\ [][ChartNext]_vars

SessionNext ==
    LoadLlmUtils \/ Login \/ Logout \/ InlineSend \/ SidebarSend \/ ChatTabSend
SpecSession == Init /\ [][SessionNext]_vars

PriceNext == PriceCall \/ PriceLoopStep \/ PriceReturn
SpecPrice == Init /\ [][PriceNext]_vars

IndexNext == IndexCall \/ IndexLoopStep \/ IndexFinish
SpecIndex == Init /\ [][IndexNext]_vars

----------------------------------------------------------------------------
(* Properties of company_price_series (checked under SpecPrice)            *)

\* C1: every point of a returned price series has price >= 1.0 and an
\* integer volume >= 0, whatever the ticker, bias, interval and draws.
C1_PriceFloorAndVolume ==
    pc = "returned" =>
        \A k \in 1 .. Len(series) :
            /\ series[k].price >= 1000
            /\ series[k].volume \in Nat

\* a returned series in which the floor was hit
C1_Witness ==
    /\ pc = "returned"
    /\ Len(series) > 1
    /\ \E k \in 1 .. Len(series) : series[k].price = 1000

\* C3: for every interval_minutes > 0 the call completes normally and
\* returns a series, also when the session holds one or zero points.
C3_NoFailure == pc # "ZeroDivisionError"

\* C4: a returned series has floor(390 / interval_minutes) points.
C4_Length ==
    pc = "returned" => Len(series) = 390 \div interval_minutes

\* a returned, non-empty series for an interval that does not divide 390
C4_Witness ==
    /\ pc = "returned"
    /\ 390 % interval_minutes # 0
    /\ Len(series) > 1

\* C5: prev_close has the same value in every point of a returned series.
C5_PrevCloseConstant ==
    pc = "returned" =>
        \A k, m \in 1 .. Len(series) :
            series[k].prev_close = series[m].prev_close

\* a returned series whose prices moved
C5_Witness ==
    /\ pc = "returned"
    /\ \E k, m \in 1 .. Len(series) : series[k].price # series[m].price

----------------------------------------------------------------------------
(* Properties of _generate_index_series (checked under SpecIndex)          *)

C6_LengthAndSteps ==
    (idx_pc \in {"returned", "IndexError"} /\ idx_points >= 0) =>
        /\ idx_pc = "returned"
        /\ Len(idx_series) = idx_points
        /\ \A k \in 1 .. Len(idx_series) : idx_series[k].step = k - 1

----------------------------------------------------------------------------
(* Properties of StockPredictionModal (checked under SpecModal)            *)

\* C7: the direction of a generated prediction is bullish exactly when
\* change_percent > 0 and bearish otherwise (bearish at 0).
C7_DirectionRule ==
    \A k \in 1 .. Len(predictions) :
        /\ predictions[k].direction \in {"bullish", "bearish"}
        /\ predictions[k].direction = "bullish"
               <=> stock_data.change_percent > 0

\* a prediction made on a snapshot with zero change
C7_Witness ==
    /\ Len(predictions) > 0
    /\ stock_data.change_percent = 0
    /\ predictions[1].direction = "bearish"

\* C8: all predictions generated from one snapshot have the same
\* direction, whatever the confidence drawn for each.
C8_SameDirection ==
    \A k, m \in 1 .. Len(predictions) :
        predictions[k].direction = predictions[m].direction

\* two predictions from one snapshot with different confidence
C8_Witness ==
    /\ Len(predictions) >= 2
    /\ predictions[1].confidence # predictions[2].confidence

----------------------------------------------------------------------------
(* Properties of sentiment_summary (checked under SpecTally)               *)

\* number of articles of the batch with stance s
WithStance(s) ==
    Cardinality({k \in 1 .. Len(articles) : articles[k].stance = s})

\* number of articles of the batch that mention ticker t
Mentions(t) ==
    Cardinality({k \in 1 .. Len(articles) : articles[k].ticker = t})

\* C9: counts[s] is the number of articles with stance s, for each of
\* buy, hold and sell, and the three counts sum to the batch length.
C9_Counts ==
    summary # NoData =>
        /\ \A s \in {"buy", "hold", "sell"} : summary.counts[s] = WithStance(s)
        /\ summary.counts["buy"] + summary.counts["hold"]
               + summary.counts["sell"] = Len(articles)

\* the summary of a batch with stances buy, buy, hold, sell
C9_Witness ==
    /\ summary # NoData
    /\ [k \in 1 .. Len(articles) |-> articles[k].stance]
           = <<"buy", "buy", "hold", "sell">>
    /\ summary.counts = [buy |-> 2, hold |-> 1, sell |-> 1]

\* C10: top has at most 5 entries, each a ticker of the batch with its
\* true mention count, in order of non-increasing count, and no ticker
\* left out has more mentions than a ticker listed.
C10_Top ==
    summary # NoData =>
        LET top == summary.top
            listed == {top[j][1] : j \in 1 .. Len(top)}
        IN  /\ Len(top) <= 5
            /\ \A j \in 1 .. Len(top) :
                   /\ top[j][1] \in TickersOf(articles)
                   /\ top[j][2] = Mentions(top[j][1])
            /\ \A j, l \in 1 .. Len(top) : j < l => top[j][2] >= top[l][2]
            /\ \A t \in TickersOf(articles) \ listed :
                   \A j \in 1 .. Len(top) : Mentions(t) <= top[j][2]

\* a batch of six tickers in which the ticker that entered last is
\* mentioned most and is listed, so another one is cut
C10_Witness ==
    /\ summary # NoData
    /\ Cardinality(TickersOf(articles)) = 6
    /\ Len(summary.top) = 5
    /\ summary.top[1] = <<"JPM", 2>>

\* position of the first article of the batch that mentions ticker t
FirstMention(t) ==
    CHOOSE k \in 1 .. Len(articles) :
        /\ articles[k].ticker = t
        /\ \A m \in 1 .. k - 1 : articles[m].ticker # t

\* C11: tickers with equal mention counts appear in top in the order of
\* their first occurrence in the batch, and of two tied tickers on either
\* side of the top-5 cut the earlier one is kept.
C11_StableTies ==
    summary # NoData =>
        LET top == summary.top
            listed == {top[j][1] : j \in 1 .. Len(top)}
        IN  /\ \A j, l \in 1 .. Len(top) :
                   (j < l /\ top[j][2] = top[l][2]) =>
                       FirstMention(top[j][1]) < FirstMention(top[l][1])
            /\ \A t \in TickersOf(articles) \ listed :
                   \A j \in 1 .. Len(top) :
                       top[j][2] = Mentions(t) =>
                           FirstMention(top[j][1]) < FirstMention(t)

\* six tickers, the sort moved a ticker forward, and the ticker cut has
\* as many mentions as the last one listed
C11_Witness ==
    /\ summary # NoData
    /\ Cardinality(TickersOf(articles)) = 6
    /\ Len(summary.top) = 5
    /\ summary.top[1][1] # articles[1].ticker
    /\ \E t \in TickersOf(articles) :
           /\ \A j \in 1 .. 5 : summary.top[j][1] # t
           /\ Mentions(t) = summary.top[5][2]

----------------------------------------------------------------------------
(* Properties of SentimentAnalyzer (checked under SpecAnalyzer)            *)

\* C12: get_percentage(count) is 0 when the analyzer holds no article and
\* the integer nearest to count / total * 100 (the even one of two equally
\* near) otherwise.
C12_Percentage ==
    sa_percentage # NoData =>
        LET c == sa_percentage.count
            v == sa_percentage.value
        IN  IF sa_total = 0 THEN v = 0
            ELSE /\ 2 * (100 * c - v * sa_total) <= sa_total
                 /\ 2 * (v * sa_total - 100 * c) <= sa_total
                 /\ (2 * (100 * c - v * sa_total) = sa_total
                        \/ 2 * (v * sa_total - 100 * c) = sa_total)
                    => v % 2 = 0

\* get_percentage(3) on an analyzer of 12 articles gave 25
C12_Witness ==
    /\ sa_total = 12
    /\ sa_percentage = [count |-> 3, value |-> 25]

----------------------------------------------------------------------------
(* Properties of the percentage changes (checked under SpecChange)         *)

\* C13 as stated: fetch_stock_data and fake_indices both derive the
\* percentage change as change / current price * 100, the current price
\* (not the pre-change base) being the divisor.
C13_CurrentAsDivisor ==
    /\ stock_data # NoData =>
           stock_data.change_percent
               = (stock_data.change * 100 * 1000) \div stock_data.current_price
    /\ Len(snapshots) > 0 =>
           fi_change_pct = (fi_change * 100) \div (fi_current_value \div 1000)

\* C13 as amended: fetch_stock_data divides the change by the current
\* price, fake_indices divides the change by the pre-change base
\* (current_value - change).
C13_StockCurrentIndexBase ==
    /\ stock_data # NoData =>
           stock_data.change_percent
               = (stock_data.change * 100 * 1000) \div stock_data.current_price
    /\ Len(snapshots) > 0 =>
           /\ fi_base = fi_current_value - fi_change
           /\ fi_change_pct = (fi_change * 100) \div (fi_base \div 1000)

\* a stock record and an index snapshot, both with a change for which the
\* two divisors give different percentages
C13_Witness ==
    /\ stock_data # NoData
    /\ stock_data.change # 0
    /\ Len(snapshots) > 0
    /\ (fi_change * 100) \div (fi_base \div 1000)
           # (fi_change * 100) \div (fi_current_value \div 1000)

----------------------------------------------------------------------------
(* Further properties of StockPredictionModal (checked under SpecModal)    *)

\* C14: producing a prediction leaves the record it is given, the modal's
\* stored stock_data, unchanged.
C14_RecordUnchanged ==
    [][Len(predictions') > Len(predictions) => stock_data' = stock_data]_vars

----------------------------------------------------------------------------
(* Further properties of sentiment_summary (checked under SpecTally)       *)

\* C15: a call of sentiment_summary leaves the batch as it was, and a
\* second call on the same batch returns the counts and the top list of
\* the first.
C15_BatchKeptResultRepeated ==
    [][summary' # NoData =>
          /\ articles' = articles
          /\ summary # NoData => summary' = summary]_vars

\* the second call on a batch of several tickers has returned
C15_Witness ==
    /\ last_summary # NoData
    /\ summary = last_summary
    /\ Cardinality(TickersOf(articles)) >= 2

\* C16: target_price is current_price * (1 + (change_percent / 100) * 2),
\* the observed change extrapolated by the factor 2.
C16_TargetPrice ==
    \A k \in 1 .. Len(predictions) :
        predictions[k].target_price
            = stock_data.current_price
              + (stock_data.current_price * 2 * stock_data.change_percent)
                    \div 100000

\* current price 100 with change 5 (5 %) gave the target 110
C16_Witness ==
    /\ Len(predictions) > 0
    /\ stock_data.current_price = 100000
    /\ stock_data.change_percent = 5000
    /\ predictions[1].target_price = 110000

\* C17: the confidence of every generated prediction is an integer in
\* 65 .. 90, whatever the change.
C17_ConfidenceRange ==
    \A k \in 1 .. Len(predictions) : predictions[k].confidence \in 65 .. 90

\* both ends of the range drawn on one snapshot with a negative change
C17_Witness ==
    /\ Len(predictions) >= 2
    /\ stock_data.change_percent < 0
    /\ predictions[1].confidence = 90
    /\ predictions[2].confidence = 65

----------------------------------------------------------------------------
(* Properties of fake_signals (checked under SpecSignals)                  *)

\* C18: fake_signals returns exactly one card per company of COMPANIES, in
\* that order, each with direction BUY, HOLD or SELL, confidence in
\* 55 .. 90 and signal count in 3 .. 10.
C18_Cards ==
    fs_pc = "returned" =>
        /\ Len(signals.cards) = 10
        /\ \A k \in 1 .. Len(signals.cards) :
               /\ signals.cards[k].ticker = CompanyTickers[k]
               /\ signals.cards[k].direction \in {"BUY", "HOLD", "SELL"}
               /\ signals.cards[k].confidence \in 55 .. 90
               /\ signals.cards[k].signals \in 3 .. 10

\* a returned batch with both ends of the confidence and count ranges
C18_Witness ==
    /\ fs_pc = "returned"
    /\ signals.cards[1].confidence = 55 /\ signals.cards[1].signals = 3
    /\ signals.cards[10].confidence = 90 /\ signals.cards[10].signals = 10
    /\ signals.cards[10].ticker = "META"

----------------------------------------------------------------------------
(* Properties of the index breadth (checked under SpecIndices)             *)

\* C19: the breadth counts every index record exactly once, as bullish
\* when its change is >= 0 and as bearish when it is < 0, so the two
\* counts sum to the number of records.
C19_BreadthPartition ==
    breadth # NoData =>
        /\ breadth.bullish
               = Cardinality({k \in 1 .. Len(snapshots) :
                                 snapshots[k].change >= 0})
        /\ breadth.bearish
               = Cardinality({k \in 1 .. Len(snapshots) :
                                 snapshots[k].change < 0})
        /\ breadth.bullish + breadth.bearish = Len(snapshots)

\* a rendered batch with a rising, a falling and an unchanged index
C19_Witness ==
    /\ breadth # NoData
    /\ \E k \in 1 .. Len(snapshots) : snapshots[k].change > 0
    /\ \E k \in 1 .. Len(snapshots) : snapshots[k].change < 0
    /\ \E k \in 1 .. Len(snapshots) : snapshots[k].change = 0

----------------------------------------------------------------------------
(* Further properties of company_price_series (checked under SpecPrice)    *)

\* minutes between the midnight of the session day and an ISO timestamp
MinutesOf(ts) == ts.day * 1440 + ts.hour * 60 + ts.minute

\* C20: the i-th point (i from 0) of a returned series carries 13:30:00 of
\* the session day plus i * interval_minutes minutes, so the timestamps
\* increase strictly with the constant gap interval_minutes.
C20_Timestamps ==
    pc = "returned" =>
        /\ \A k \in 1 .. Len(series) :
               /\ series[k].time.hour \in 0 .. 23
               /\ series[k].time.minute \in 0 .. 59
               /\ series[k].time.second = 0
               /\ MinutesOf(series[k].time)
                      = 13 * 60 + 30 + (k - 1) * interval_minutes
        /\ \A k \in 1 .. Len(series) - 1 :
               MinutesOf(series[k + 1].time) - MinutesOf(series[k].time)
                   = interval_minutes

\* a returned series that starts at 13:30 and runs into a later hour
C20_Witness ==
    /\ pc = "returned"
    /\ Len(series) >= 3
    /\ series[1].time = [day |-> 0, hour |-> 13, minute |-> 30, second |-> 0]
    /\ series[Len(series)].time.hour > 14

\* C21: the bias is classified without regard to case: buy, bullish and
\* increase give a base_trend in [0.15, 0.35], sell, bearish and decrease one
\* in [-0.35, -0.15], and any other string or an absent bias is accepted
\* without error and gives a base_trend in [-0.08, 0.08].
C21_BiasClasses ==
    pc # "idle" =>
        /\ bias \in {"buy", "Bullish", "INCREASE"} =>
               base_trend > 0 /\ base_trend \in 150 .. 350
        /\ bias \in {"SELL", "bearish", "Decrease"} =>
               base_trend < 0 /\ base_trend \in -350 .. -150
        /\ bias \notin {"buy", "Bullish", "INCREASE",
                        "SELL", "bearish", "Decrease"} =>
               /\ base_trend \in -80 .. 80
               /\ pc \in {"loop", "returned"} \/ points = 1

\* a series was returned for an upper-case bearish tag with the largest
\* draw negated
C21_Witness ==
    /\ pc = "returned"
    /\ Len(series) >= 2
    /\ bias = "SELL"
    /\ base_trend = -350

----------------------------------------------------------------------------
(* Further properties of _generate_index_series (checked under SpecIndex)  *)

\* C22: a negative point count ends in an error outcome: an exception is
\* raised and no series is returned, neither an empty nor a malformed one.
C22_NegativeCountRaises ==
    idx_points < 0 =>
        /\ idx_pc # "returned"
        /\ idx_pc \in {"loop", "IndexError"}
        /\ idx_series = <<>>
        /\ idx_pc = "loop" => ENABLED IndexFinish

\* the call with a negative count has ended in the exception
C22_Witness ==
    /\ idx_points < 0
    /\ idx_pc = "IndexError"

----------------------------------------------------------------------------
(* Further properties of StockPredictionModal (checked under SpecModal)    *)

\* C23: loading is true exactly when stock_data is None; get_modal_data
\* called before any fetch_stock_data returns only the loading payload,
\* makes no prediction and generates no price series; once fetch_stock_data
\* has run, loading never becomes true again.
C23_LoadingUntilFetched ==
    /\ [](loading <=> stock_data = NoData)
    /\ [](stock_data = NoData =>
              /\ modal_data \in {NoData, LoadingPayload}
              /\ predictions = <<>>
              /\ series_calls = 0)
    /\ [][~loading => ~loading']_vars

\* get_modal_data was called before the first fetch_stock_data, which has
\* run since
C23_Witness ==
    /\ modal_data = LoadingPayload
    /\ ~loading
    /\ stock_data # NoData

\* C24: between two consecutive fetch_stock_data calls every get_modal_data
\* call returns the same direction and the same target_price (the confidence
\* may differ); each fetch_stock_data installs a fresh record whose
\* prediction is None until the next get_modal_data.
C24_StableBetweenFetches ==
    /\ \A j, k \in 1 .. Len(predictions) :
           /\ predictions[j].direction = predictions[k].direction
           /\ predictions[j].target_price = predictions[k].target_price
    /\ stock_data # NoData =>
           /\ predictions = <<>> <=> stock_data.prediction = NoData
           /\ predictions # <<>> =>
                  /\ stock_data.prediction = predictions[Len(predictions)]
                  /\ modal_data.prediction = predictions[Len(predictions)]

\* three get_modal_data calls on one record with a nonzero change, the
\* first and the last with different confidence
C24_Witness ==
    /\ Len(predictions) = 3
    /\ stock_data.change # 0
    /\ predictions[1].confidence # predictions[3].confidence
    /\ predictions[1].target_price # stock_data.current_price

----------------------------------------------------------------------------
(* Further properties of fake_indices (checked under SpecIndices)          *)

\* number of records of a batch labelled Bullish
RECURSIVE LabelledBullish(_)
LabelledBullish(batch) ==
    IF batch = <<>> THEN 0
    ELSE LabelledBullish(SubSeq(batch, 1, Len(batch) - 1))
         + (IF batch[Len(batch)].trend = "Bullish" THEN 1 ELSE 0)

\* C25: in every batch of fake_indices a record is labelled Bullish exactly
\* when its stored change (rounded to 2 decimals) is >= 0, so the number of
\* records render_indices_tab counts as bullish equals the number labelled
\* Bullish.
C25_TrendAgreesWithBreadth ==
    /\ \A k \in 1 .. Len(snapshots) :
           snapshots[k].trend = "Bullish" <=> snapshots[k].change >= 0
    /\ breadth # NoData => breadth.bullish = LabelledBullish(snapshots)

\* C26: every snapshot of fake_indices carries a series of exactly 18 points
\* whose last point's value equals the snapshot's value field, the current
\* value rounded to 2 decimals.
C26_SeriesEndsAtValue ==
    \A k \in 1 .. Len(snapshots) :
        /\ Len(snapshots[k].series) = 18
        /\ snapshots[k].series[18].step = 17
        /\ snapshots[k].series[18].value = snapshots[k].value

\* a returned batch whose last record has a current value that rounding
\* changes and a series that moved away from it
C26_Witness ==
    /\ fi_pc = "returned"
    /\ snapshots[NumIndices].value # fi_current_value
    /\ snapshots[NumIndices].series[17].value # snapshots[NumIndices].value
    /\ \E k \in 1 .. NumIndices : snapshots[k].change # 0

----------------------------------------------------------------------------
(* Properties of StockChart (checked under SpecChart)                      *)

\* sign of a number
Sign(x) == IF x > 0 THEN 1 ELSE IF x < 0 THEN -1 ELSE 0

\* C27: for a stock whose change and change_percent have the same sign,
\* is_positive of StockChart.to_dict and the direction of the prediction
\* agree on every input except zero change, where the chart reports
\* is_positive = true with the green line colour while the direction is
\* bearish.
C27_ChartAgreesWithDirection ==
    (chart_dict # NoData
        /\ Sign(chart_dict.change) = Sign(chart_dict.change_percent)) =>
        LET direction == Direction(chart_dict.change_percent)
        IN  IF chart_dict.change = 0
            THEN /\ chart_dict.is_positive
                 /\ chart_dict.line_color = "#10b981"
                 /\ direction = "bearish"
            ELSE /\ chart_dict.is_positive <=> direction = "bullish"
                 /\ chart_dict.line_color = "#10b981" <=> direction = "bullish"

\* to_dict was called on a stock with zero change and zero change_percent
C27_Witness ==
    /\ chart_dict # NoData
    /\ chart_dict.change = 0
    /\ chart_dict.change_percent = 0
    /\ chart_dict.is_positive

----------------------------------------------------------------------------
(* Further properties of SentimentAnalyzer (checked under SpecAnalyzer)    *)

\* C28: when every article's sentiment is positive, negative, neutral or
\* missing (counted as neutral), the three counts of get_sentiment_analysis
\* sum to total, and for every non-empty batch the three percentages sum to
\* a value in 99 .. 101.
C28_CountsAndPercentages ==
    sa_analysis # NoData =>
        /\ sa_analysis.total = Len(sa_articles)
        /\ sa_analysis.positive.count + sa_analysis.negative.count
               + sa_analysis.neutral.count = sa_analysis.total
        /\ sa_analysis.total > 0 =>
               sa_analysis.positive.percentage
                   + sa_analysis.negative.percentage
                   + sa_analysis.neutral.percentage \in 99 .. 101

\* an analysis of a batch with an article without sentiment whose
\* percentages do not sum to 100
C28_Witness ==
    /\ sa_analysis # NoData
    /\ \E k \in 1 .. Len(sa_articles) : sa_articles[k].sentiment = NoSentiment
    /\ sa_analysis.positive.percentage + sa_analysis.negative.percentage
           + sa_analysis.neutral.percentage = 101

----------------------------------------------------------------------------
(* Properties of the chat history (checked under SpecSession)              *)

\* C29: after any sequence of send actions through the inline copilot, the
\* sidebar and the chat tab (sends with an empty prompt included),
\* chat_history has even length and alternates user, assistant starting
\* with user; handle_copilot_message with an empty or whitespace-only prompt
\* leaves chat_history unchanged.
C29_Alternating ==
    /\ [](/\ Len(chat_history) % 2 = 0
          /\ \A k \in 1 .. Len(chat_history) :
                 chat_history[k].role =
                     IF k % 2 = 1 THEN "user" ELSE "assistant")
    /\ [][\A p \in Prompts :
              (Strip(p) = "" /\ InlineSendWith(p)) =>
                  chat_history' = chat_history]_vars

\* C30: logout sets the session user to None and leaves chat_history
\* unchanged, and no action removes a message, so after one user sent
\* messages and logged out and another user logged in, chat_history still
\* holds the first user's messages.
C30_HistorySurvivesLogout ==
    /\ [][(user # NoUser /\ user' = NoUser) =>
              chat_history' = chat_history]_vars
    /\ [][/\ Len(chat_history') >= Len(chat_history)
          /\ SubSeq(chat_history', 1, Len(chat_history)) = chat_history
          /\ history_set => history_set']_vars

\* the second user is signed in and the history starts with the exchange
\* of the first
C30_Witness ==
    /\ user = "bob@x.io"
    /\ Len(chat_history) >= 2
    /\ senders[1] = "ann@x.io"
    /\ chat_history[1] = [role |-> "user", content |-> "hi"]

====
